---- MODULE Spec2Model ----
(***************************************************************************)
(* Model of shaketune/commands/create_vibrations_profile.py:               *)
(* create_vibrations_profile(gcmd, config, st_process).                    *)
(*                                                                         *)
(* The command is one sequential thread of control (pc) that issues calls  *)
(* to the printer: SET_VELOCITY_LIMIT scripts, toolhead moves and dwells   *)
(* (which are only queued: the toolhead executes them asynchronously),     *)
(* toolhead.wait_moves (which blocks until the queue is drained), the      *)
(* accelerometer's start_recording / stop_recording and the graph          *)
(* creation process.  Every call is appended to the history variable log.  *)
(*                                                                         *)
(* Units: speeds and sizes are the integers of mm/s and mm; a cruise ratio *)
(* is in percent; the segment length multiplier is in 1/500.               *)
(***************************************************************************)
EXTENDS Integers, Sequences, FiniteSets

\* ------------------------------------------------------------ bounds
\* Largest number of speed samples per angle among the accepted requests.
MaxSamples == 3

\* ------------------------------------------------- program constants
MIN_SPEED == 2
\* Python's None where a number is expected (old_mcr = None), and the
\* absence of the key minimum_cruise_ratio in the toolhead status.
NoneVal == -1
\* Python's None where a chip name is expected.
NoChip == "None"

SizeMin == 50
MaxSpeedMin == 10
SpeedIncrementMin == 1
TestSqv == 5
TestMcr == 0

\* ------------------------------------------------------------ inputs
Sizes == {49, 50, 100}
MaxSpeeds == {9, 10, 102, 150, 300, 12000, 12001, 24001}
Increments == {0, 3, 8, 98, 124, 148, 6000}
Accels == {3000}
TravelSpeeds == {120}
AccelChips == {NoChip, "", "adxl345"}
Kinematics == {"cartesian", "corexy", "corexz", "delta"}
Axes == {"x", "y", "xy"}

\* The gcode parameters of the command.
Params ==
  [SIZE : Sizes, MAX_SPEED : MaxSpeeds, SPEED_INCREMENT : Increments,
   ACCEL : Accels, TRAVEL_SPEED : TravelSpeeds, ACCEL_CHIP : AccelChips]

\* The toolhead status before the command: the velocity limits.  Klipper
\* before v0.12.0-239 has no minimum_cruise_ratio key (NoneVal).
ToolheadStatuses ==
  { [max_accel |-> 1500, square_corner_velocity |-> 8, minimum_cruise_ratio |-> NoneVal],
    [max_accel |-> 1500, square_corner_velocity |-> 8, minimum_cruise_ratio |-> 0],
    [max_accel |-> 4000, square_corner_velocity |-> 5, minimum_cruise_ratio |-> 50] }

\* The accelerometers of the printer: what the axis resolver answers for
\* each axis hint, and the chip objects the printer has.
Printers ==
  { [resolver |-> [a \in Axes |-> "adxl345"], objects |-> {"adxl345"}],
    [resolver |-> [a \in Axes |-> IF a = "x" THEN "lis2dw" ELSE "adxl345"],
     objects |-> {"lis2dw", "adxl345"}],
    [resolver |-> [a \in Axes |-> IF a = "x" THEN "lis2dw" ELSE NoChip],
     objects |-> {"lis2dw"}],
    [resolver |-> [a \in Axes |-> NoChip], objects |-> {}] }

\* ------------------------------------------------------ pure functions
\* gcmd.get_float / get_int with minval: the parameter is rejected below it.
ParamsAccepted(p) ==
  /\ p.SIZE >= SizeMin
  /\ p.MAX_SPEED >= MaxSpeedMin
  /\ p.SPEED_INCREMENT >= SpeedIncrementMin

\* The travel time compared with <= 0.25.
TravelTimeTooSmallInclusive(size, max_speed) == size * 60 * 4 <= max_speed

\* (size / (max_speed / 60)) < 0.25, cross-multiplied: max_speed > 0.
TravelTimeTooSmall(size, max_speed) == size * 60 * 4 < max_speed

\* int((max_speed - MIN_SPEED) / speed_increment + 1): the quotient is
\* not negative, so int() is the floor.
NbSpeedSamplesOffByOne(max_speed, speed_increment) ==
  ((max_speed - MIN_SPEED) \div speed_increment) + 2

NbSpeedSamples(max_speed, speed_increment) ==
  ((max_speed - MIN_SPEED) \div speed_increment) + 1

\* CoreXZ taken for a CoreXY.
MainAnglesCoreXZ(kin) ==
  IF kin = "cartesian" THEN <<0, 90>>
  ELSE IF kin \in {"corexy", "corexz"} THEN <<45, 135>>
  ELSE << >>

\* The angles tested for a kinematics, << >> when it is not supported.
MainAngles(kin) ==
  IF kin \in {"cartesian", "corexz"} THEN <<0, 90>>
  ELSE IF kin = "corexy" THEN <<45, 135>>
  ELSE << >>

\* angle_to_axis.get(curr_angle, 'xy')
AccelAxis(angle) ==
  IF angle = 0 THEN "x" ELSE IF angle = 90 THEN "y" ELSE "xy"

\* curr_speed = MIN_SPEED + curr_speed_sample * speed_increment
CurrSpeed(sample, speed_increment) == MIN_SPEED + sample * speed_increment

\* The multiplier without its 1/5 offset.
SegmentLengthMultiplierNoOffset(speed) ==
  IF speed < 100 THEN 4 * speed ELSE 500

\* segment_length_multiplier, in 1/500:
\* 1/5 + 4/5 * curr_speed / 100 below 100 mm/s, 1 from there on.
SegmentLengthMultiplier(speed) ==
  IF speed < 100 THEN 100 + 4 * speed ELSE 500

\* The bands of the movements with their bounds on the wrong side.
MovementsInclusive(speed) ==
  IF speed <= 150 THEN 1 ELSE IF speed <= 250 THEN 2 ELSE 3

\* The number of back and forth movements of a sample.
Movements(speed) ==
  IF speed < 150 THEN 1 ELSE IF speed < 250 THEN 2 ELSE 3

\* The name built from the speed alone.
RecordingNameSpeedOnly(angle, speed) ==
  [an |-> <<0, 0>>, sp |-> <<speed, 0>>]

\* f'vib_an{curr_angle:.2f}sp{curr_speed:.2f}'.replace('.', '_'): each
\* number as its integer part and its two decimals.
RecordingName(angle, speed) ==
  [an |-> <<angle, 0>>, sp |-> <<speed, 0>>]

\* The requests the model runs: every rejected one, and the accepted ones
\* of at most MaxSamples speed samples.
Requests ==
  { p \in Params :
      (ParamsAccepted(p) /\ ~TravelTimeTooSmall(p.SIZE, p.MAX_SPEED))
        => ((p.MAX_SPEED - MIN_SPEED) \div p.SPEED_INCREMENT) + 1 <= MaxSamples }


\* -------------------------------------------------------------- state
VARIABLES
  params,            \* the gcode parameters of the request (gcmd)
  printer,           \* the printer's accelerometers (resolver, objects)
  input_shaper,      \* whether the printer has an input_shaper object
  kinematics,        \* motors_config_parser.kinematics
  initial_limits,    \* the toolhead's velocity limits before the command
  limits,            \* the toolhead's velocity limits now
  queue,             \* the toolhead's queued moves and dwells, oldest first
  executing,         \* the move or dwell the toolhead is executing, or Idle
  open_recordings,   \* start_recording calls minus stop_recording calls
  measurements,      \* the names recorded in the measurements manager
  pc,                \* where the command is
  error,             \* the gcmd.error raised, or "" when none
  accel_chip,        \* locals of create_vibrations_profile ...
  main_angles,
  old_accel,
  old_sqv,
  old_mcr,
  nb_speed_samples,
  angle_index,
  current_accel_chip,
  curr_speed_sample,
  curr_speed,
  movements,
  repetition,
  log                \* every call the command made, in order

machine == <<limits, queue, executing, open_recordings, measurements>>
request == <<params, printer, input_shaper, kinematics, initial_limits>>
locals == <<accel_chip, main_angles, old_accel, old_sqv, old_mcr, nb_speed_samples,
            angle_index, current_accel_chip, curr_speed_sample, curr_speed,
            movements, repetition>>
vars == <<request, machine, locals, pc, error, log>>

Idle == [kind |-> "idle", angle |-> 0, sample |-> 0, feed |-> 0,
         side |-> "none", length |-> 0]

\* A toolhead.move to a position at a feedrate.  The position is the side
\* of the tested segment (center - d: "minus", center + d: "plus") with the
\* segment's angle and its length size * multiplier, or a named place.
Move(kind, angle, sample, feed, side, length) ==
  [kind |-> kind, angle |-> angle, sample |-> sample, feed |-> feed,
   side |-> side, length |-> length]

Dwell(kind) == Move(kind, 0, 0, 0, "none", 0)

Call(op, arg) == [op |-> op, arg |-> arg]
NoArg == [none |-> TRUE]

\* SET_VELOCITY_LIMIT ACCEL=.. [MINIMUM_CRUISE_RATIO=..] SQUARE_CORNER_VELOCITY=..
\* (MCR is NoneVal when the command does not carry the parameter.)
SetVelocityLimit(a, mcr, sqv) == [ACCEL |-> a, MCR |-> mcr, SQV |-> sqv]

\* What the toolhead does with a SET_VELOCITY_LIMIT command.
ApplyVelocityLimit(lim, cmd) ==
  [max_accel |-> cmd.ACCEL,
   square_corner_velocity |-> cmd.SQV,
   minimum_cruise_ratio |->
     IF cmd.MCR # NoneVal THEN cmd.MCR ELSE lim.minimum_cruise_ratio]

Init ==
  /\ params \in Requests
  /\ printer \in Printers
  /\ input_shaper \in BOOLEAN
  /\ kinematics \in Kinematics
  /\ initial_limits \in ToolheadStatuses
  /\ limits = initial_limits
  /\ queue = << >>
  /\ executing = Idle
  /\ open_recordings = 0
  /\ measurements = << >>
  /\ pc = "parse"
  /\ error = ""
  /\ accel_chip = NoChip
  /\ main_angles = << >>
  /\ old_accel = NoneVal
  /\ old_sqv = NoneVal
  /\ old_mcr = NoneVal
  /\ nb_speed_samples = 0
  /\ angle_index = 1
  /\ current_accel_chip = NoChip
  /\ curr_speed_sample = 0
  /\ curr_speed = 0
  /\ movements = 0
  /\ repetition = 0
  /\ log = << >>

\* raise gcmd.error(...): the command ends there.
Raise(kind) ==
  /\ pc' = "raised"
  /\ error' = kind


\* The statement that follows a statement in the text of the function
\* (a loop's last statement is followed by the statement after the loop).
ProgramOrder(label) ==
  CASE label = "parse" -> "check_size"
    [] label = "check_size" -> "check_input_shaper"
    [] label = "check_input_shaper" -> "kinematics"
    [] label = "kinematics" -> "read_limits"
    [] label = "read_limits" -> "override"
    [] label = "override" -> "lift"
    [] label = "lift" -> "center"
    [] label = "center" -> "start_dwell"
    [] label = "start_dwell" -> "angle"
    [] label = "angle" -> "approach"
    [] label = "approach" -> "start"
    [] label = "start" -> "move_out"
    [] label = "move_out" -> "move_back"
    [] label = "move_back" -> "stop"
    [] label = "stop" -> "settle"
    [] label = "settle" -> "drain"
    [] label = "drain" -> "loop_end"
    [] label = "loop_end" -> "restore"
    [] label = "restore" -> "final_drain"
    [] label = "final_drain" -> "configure"
    [] label = "configure" -> "run"
    [] label = "run" -> "wait"
    [] label = "wait" -> "done"

\* The checks of lines 46 and 50-57 moved below the override of the limits.
AfterChecksLate(label) ==
  CASE label = "check_size" -> "read_limits"
    [] label = "override" -> "check_input_shaper"
    [] label = "kinematics" -> "lift"
    [] OTHER -> ProgramOrder(label)

\* start_recording moved below the back and forth movements.
AfterStartLate(label) ==
  CASE label = "approach" -> "move_out"
    [] label = "move_back" -> "start"
    [] label = "start" -> "stop"
    [] OTHER -> ProgramOrder(label)

\* stop_recording left out.
AfterNoStop(label) ==
  CASE label = "move_back" -> "settle"
    [] OTHER -> ProgramOrder(label)

\* The graph creation run before the limits are restored.
AfterHandoffFirst(label) ==
  CASE label = "loop_end" -> "configure"
    [] label = "wait" -> "restore"
    [] label = "final_drain" -> "done"
    [] OTHER -> ProgramOrder(label)

\* The limits overridden after the first move is queued.
AfterOverrideLate(label) ==
  CASE label = "read_limits" -> "lift"
    [] label = "lift" -> "override"
    [] label = "override" -> "center"
    [] OTHER -> ProgramOrder(label)

After(label) == ProgramOrder(label)

\* ------------------------------------------- validation (lines 23-58)
\* Lines 23-32: the parameters are read with their minimum values; an
\* empty ACCEL_CHIP is no chip.
ParseParams ==
  /\ pc = "parse"
  /\ IF ParamsAccepted(params)
       THEN /\ accel_chip' = (IF params.ACCEL_CHIP = "" THEN NoChip ELSE params.ACCEL_CHIP)
            /\ pc' = After("parse")
            /\ UNCHANGED error
       ELSE /\ Raise("parameter")
            /\ UNCHANGED accel_chip
  /\ UNCHANGED <<request, machine, main_angles, old_accel, old_sqv, old_mcr,
                 nb_speed_samples, angle_index, current_accel_chip,
                 curr_speed_sample, curr_speed, movements, repetition, log>>

\* Lines 34-37.
CheckSize ==
  /\ pc = "check_size"
  /\ IF TravelTimeTooSmall(params.SIZE, params.MAX_SPEED)
       THEN Raise("size")
       ELSE pc' = After("check_size") /\ UNCHANGED error
  /\ UNCHANGED <<request, machine, locals, log>>

\* Lines 39-47.
CheckInputShaper ==
  /\ pc = "check_input_shaper"
  /\ IF ~input_shaper
       THEN Raise("input_shaper")
       ELSE pc' = After("check_input_shaper") /\ UNCHANGED error
  /\ UNCHANGED <<request, machine, locals, log>>

\* Lines 49-58.
ResolveKinematics ==
  /\ pc = "kinematics"
  /\ IF MainAngles(kinematics) # << >>
       THEN /\ main_angles' = MainAngles(kinematics)
            /\ pc' = After("kinematics")
            /\ UNCHANGED error
       ELSE /\ Raise("kinematics")
            /\ UNCHANGED main_angles
  /\ UNCHANGED <<request, machine, accel_chip, old_accel, old_sqv, old_mcr,
                 nb_speed_samples, angle_index, current_accel_chip,
                 curr_speed_sample, curr_speed, movements, repetition, log>>

\* ------------------------------------- velocity limits (lines 60-72)
\* Lines 60-62.
ReadLimits ==
  /\ pc = "read_limits"
  /\ old_accel' = limits.max_accel
  /\ old_sqv' = limits.square_corner_velocity
  /\ pc' = After("read_limits")
  /\ log' = Append(log, Call("get_status", NoArg))
  /\ UNCHANGED <<request, machine, error, accel_chip, main_angles, old_mcr,
                 nb_speed_samples, angle_index, current_accel_chip,
                 curr_speed_sample, curr_speed, movements, repetition>>

\* The test limits of lines 65-72.
OverrideCommandAlwaysMcr(status, accel) ==
  SetVelocityLimit(accel, TestMcr, TestSqv)

OverrideCommand(status, accel) ==
  IF status.minimum_cruise_ratio # NoneVal
    THEN SetVelocityLimit(accel, TestMcr, TestSqv)
    ELSE SetVelocityLimit(accel, NoneVal, TestSqv)

\* Lines 65-72.
OverrideLimits ==
  /\ pc = "override"
  /\ old_mcr' = limits.minimum_cruise_ratio
  /\ limits' = ApplyVelocityLimit(limits, OverrideCommand(limits, params.ACCEL))
  /\ log' = Append(log, Call("SET_VELOCITY_LIMIT", OverrideCommand(limits, params.ACCEL)))
  /\ pc' = After("override")
  /\ UNCHANGED <<request, queue, executing, open_recordings, measurements, error,
                 accel_chip, main_angles, old_accel, old_sqv,
                 nb_speed_samples, angle_index, current_accel_chip,
                 curr_speed_sample, curr_speed, movements, repetition>>

\* The limits written back by lines 143-148.
RestoreCommandFalsy(accel, mcr, sqv) ==
  IF mcr # NoneVal /\ mcr # 0
    THEN SetVelocityLimit(accel, mcr, sqv)
    ELSE SetVelocityLimit(accel, NoneVal, sqv)

RestoreCommand(accel, mcr, sqv) ==
  IF mcr # NoneVal
    THEN SetVelocityLimit(accel, mcr, sqv)
    ELSE SetVelocityLimit(accel, NoneVal, sqv)

\* ------------------------------------------- toolhead (lines 74-86)
\* toolhead.move / toolhead.dwell: the move is queued, the call returns.
Enqueue(m) ==
  /\ queue' = Append(queue, m)
  /\ log' = Append(log, Call(IF m.kind \in {"dwell", "settle"} THEN "dwell" ELSE "move", m))

\* Lines 74-80: to the test height, at a tenth of the travel speed.
MoveToHeight ==
  /\ pc = "lift"
  /\ Enqueue(Move("travel", 0, 0, params.TRAVEL_SPEED \div 10, "here", 0))
  /\ pc' = After("lift")
  /\ UNCHANGED <<request, limits, executing, open_recordings, measurements, error, locals>>

\* Line 81.
MoveToCenter ==
  /\ pc = "center"
  /\ Enqueue(Move("travel", 0, 0, params.TRAVEL_SPEED, "center", 0))
  /\ pc' = After("center")
  /\ UNCHANGED <<request, limits, executing, open_recordings, measurements, error, locals>>

\* Lines 82-86.
StartDwell ==
  /\ pc = "start_dwell"
  /\ Enqueue(Dwell("dwell"))
  /\ nb_speed_samples' = NbSpeedSamples(params.MAX_SPEED, params.SPEED_INCREMENT)
  /\ angle_index' = 1
  /\ pc' = After("start_dwell")
  /\ UNCHANGED <<request, limits, executing, open_recordings, measurements, error,
                 accel_chip, main_angles, old_accel, old_sqv, old_mcr,
                 current_accel_chip, curr_speed_sample, curr_speed, movements,
                 repetition>>


\* -------------------------------------------- the sweep (lines 87-140)
\* (size / 2) * segment_length_multiplier, in 1/1000 mm: the length of dX, dY.
SegmentLength(size, speed) == size * SegmentLengthMultiplier(speed)

\* The chip found for an angle kept in accel_chip for the next angles.
ResolveAccelerometerCarryOver ==
  /\ pc = "angle"
  /\ LET angle == main_angles[angle_index]
         axis == AccelAxis(angle)
         chip == IF accel_chip = NoChip THEN printer.resolver[axis] ELSE accel_chip
         asked == IF accel_chip = NoChip
                    THEN <<Call("find_axis_accelerometer", [axis |-> axis])>>
                    ELSE << >>
     IN /\ current_accel_chip' = chip
        /\ accel_chip' = chip
        /\ log' = log \o asked \o <<Call("lookup_object", [chip |-> chip])>>
        /\ IF chip \in printer.objects
             THEN /\ pc' = After("angle")
                  /\ curr_speed_sample' = 0
                  /\ UNCHANGED error
             ELSE /\ Raise("accelerometer")
                  /\ UNCHANGED curr_speed_sample
  /\ UNCHANGED <<request, machine, main_angles, old_accel, old_sqv,
                 old_mcr, nb_speed_samples, angle_index, curr_speed, movements,
                 repetition>>

\* Lines 87-102: the accelerometer of the angle.
ResolveAccelerometer ==
  /\ pc = "angle"
  /\ LET angle == main_angles[angle_index]
         axis == AccelAxis(angle)
         chip == IF accel_chip = NoChip THEN printer.resolver[axis] ELSE accel_chip
         asked == IF accel_chip = NoChip
                    THEN <<Call("find_axis_accelerometer", [axis |-> axis])>>
                    ELSE << >>
     IN /\ current_accel_chip' = chip
        /\ log' = log \o asked \o <<Call("lookup_object", [chip |-> chip])>>
        /\ IF chip \in printer.objects
             THEN /\ pc' = After("angle")
                  /\ curr_speed_sample' = 0
                  /\ UNCHANGED error
             ELSE /\ Raise("accelerometer")
                  /\ UNCHANGED curr_speed_sample
  /\ UNCHANGED <<request, machine, accel_chip, main_angles, old_accel, old_sqv,
                 old_mcr, nb_speed_samples, angle_index, curr_speed, movements,
                 repetition>>

\* Lines 105-129: the speed, the segment and the move to its start point.
Approach ==
  /\ pc = "approach"
  /\ LET speed == CurrSpeed(curr_speed_sample, params.SPEED_INCREMENT)
     IN /\ curr_speed' = speed
        /\ movements' = Movements(speed)
        /\ Enqueue(Move("approach", main_angles[angle_index], curr_speed_sample,
                        params.TRAVEL_SPEED, "minus", SegmentLength(params.SIZE, speed)))
  /\ repetition' = 0
  /\ pc' = After("approach")
  /\ UNCHANGED <<request, limits, executing, open_recordings, measurements, error,
                 accel_chip, main_angles, old_accel, old_sqv, old_mcr,
                 nb_speed_samples, angle_index, current_accel_chip,
                 curr_speed_sample>>

\* Accelerometer.start_recording / stop_recording, as the command sees
\* them: synchronous calls that open and close the recording at once.
start_recording(open) == open + 1
stop_recording(open) == open - 1

\* Lines 131-133.
StartRecording ==
  /\ pc = "start"
  /\ open_recordings' = start_recording(open_recordings)
  /\ log' = Append(log, Call("start_recording",
                             [angle |-> main_angles[angle_index],
                              sample |-> curr_speed_sample,
                              speed |-> curr_speed,
                              chip |-> current_accel_chip,
                              name |-> RecordingName(main_angles[angle_index], curr_speed)]))
  /\ pc' = After("start")
  /\ UNCHANGED <<request, limits, queue, executing, measurements, error, locals>>

\* Line 135.
MoveOut ==
  /\ pc = "move_out"
  /\ Enqueue(Move("test", main_angles[angle_index], curr_speed_sample, curr_speed,
                  "plus", SegmentLength(params.SIZE, curr_speed)))
  /\ pc' = After("move_out")
  /\ UNCHANGED <<request, limits, executing, open_recordings, measurements, error, locals>>

\* Lines 134 and 136.
MoveBack ==
  /\ pc = "move_back"
  /\ Enqueue(Move("test", main_angles[angle_index], curr_speed_sample, curr_speed,
                  "minus", SegmentLength(params.SIZE, curr_speed)))
  /\ repetition' = repetition + 1
  /\ pc' = IF repetition + 1 < movements THEN "move_out" ELSE After("move_back")
  /\ UNCHANGED <<request, limits, executing, open_recordings, measurements, error,
                 accel_chip, main_angles, old_accel, old_sqv, old_mcr,
                 nb_speed_samples, angle_index, current_accel_chip,
                 curr_speed_sample, curr_speed, movements>>

\* Line 137.
StopRecording ==
  /\ pc = "stop"
  /\ open_recordings' = stop_recording(open_recordings)
  /\ measurements' = Append(measurements, RecordingName(main_angles[angle_index], curr_speed))
  /\ log' = Append(log, Call("stop_recording", NoArg))
  /\ pc' = After("stop")
  /\ UNCHANGED <<request, limits, queue, executing, error, locals>>

\* Line 139.
SettleDwell ==
  /\ pc = "settle"
  /\ Enqueue(Dwell("settle"))
  /\ pc' = After("settle")
  /\ UNCHANGED <<request, limits, executing, open_recordings, measurements, error, locals>>

\* toolhead.wait_moves() returns when nothing is queued or executing.
Drained == queue = << >> /\ executing = Idle

\* Line 140.
WaitMovesNoDrain ==
  /\ pc = "drain"
  /\ log' = Append(log, Call("wait_moves", NoArg))
  /\ pc' = After("drain")
  /\ UNCHANGED <<request, machine, error, locals>>

WaitMoves ==
  /\ pc = "drain"
  /\ Drained
  /\ log' = Append(log, Call("wait_moves", NoArg))
  /\ pc' = After("drain")
  /\ UNCHANGED <<request, machine, error, locals>>

\* The end of the body of the loops of lines 105 and 87: the next speed
\* sample, the next angle, or the statement after the loops.
NextSample ==
  /\ pc = "loop_end"
  /\ IF curr_speed_sample + 1 < nb_speed_samples
       THEN /\ curr_speed_sample' = curr_speed_sample + 1
            /\ pc' = "approach"
            /\ UNCHANGED angle_index
       ELSE IF angle_index < Len(main_angles)
         THEN /\ angle_index' = angle_index + 1
              /\ pc' = "angle"
              /\ UNCHANGED curr_speed_sample
         ELSE /\ pc' = After("loop_end")
              /\ UNCHANGED <<angle_index, curr_speed_sample>>
  /\ UNCHANGED <<request, machine, error, log, accel_chip, main_angles, old_accel,
                 old_sqv, old_mcr, nb_speed_samples, current_accel_chip,
                 curr_speed, movements, repetition>>

\* ------------------------------- restore and hand-off (lines 142-157)
\* Lines 143-148.
RestoreLimits ==
  /\ pc = "restore"
  /\ limits' = ApplyVelocityLimit(limits, RestoreCommand(old_accel, old_mcr, old_sqv))
  /\ log' = Append(log, Call("SET_VELOCITY_LIMIT", RestoreCommand(old_accel, old_mcr, old_sqv)))
  /\ pc' = After("restore")
  /\ UNCHANGED <<request, queue, executing, open_recordings, measurements, error, locals>>

\* Line 149.
FinalWaitMoves ==
  /\ pc = "final_drain"
  /\ Drained
  /\ log' = Append(log, Call("wait_moves", NoArg))
  /\ pc' = After("final_drain")
  /\ UNCHANGED <<request, machine, error, locals>>

\* Lines 152-155.
ConfigureGraphCreator ==
  /\ pc = "configure"
  /\ log' = Append(log, Call("configure", [kinematics |-> kinematics, accel |-> params.ACCEL]))
  /\ pc' = After("configure")
  /\ UNCHANGED <<request, machine, error, locals>>

\* Line 156.
RunProcess ==
  /\ pc = "run"
  /\ log' = Append(log, Call("run", [measurements |-> measurements]))
  /\ pc' = After("run")
  /\ UNCHANGED <<request, machine, error, locals>>

\* Line 157.
WaitForCompletion ==
  /\ pc = "wait"
  /\ log' = Append(log, Call("wait_for_completion", NoArg))
  /\ pc' = After("wait")
  /\ UNCHANGED <<request, machine, error, locals>>

\* ------------------------------------------------------- the toolhead
\* The toolhead starts the oldest queued move or dwell.
ExecuteBegin ==
  /\ executing = Idle
  /\ queue # << >>
  /\ executing' = Head(queue)
  /\ queue' = Tail(queue)
  /\ UNCHANGED <<request, limits, open_recordings, measurements, locals, pc, error, log>>

\* The move or dwell being executed ends.
ExecuteEnd ==
  /\ executing # Idle
  /\ executing' = Idle
  /\ UNCHANGED <<request, limits, queue, open_recordings, measurements, locals, pc,
                 error, log>>

Next ==
  \/ ParseParams
  \/ CheckSize
  \/ CheckInputShaper
  \/ ResolveKinematics
  \/ ReadLimits
  \/ OverrideLimits
  \/ MoveToHeight
  \/ MoveToCenter
  \/ StartDwell
  \/ ResolveAccelerometer
  \/ Approach
  \/ StartRecording
  \/ MoveOut
  \/ MoveBack
  \/ StopRecording
  \/ SettleDwell
  \/ WaitMoves
  \/ NextSample
  \/ RestoreLimits
  \/ FinalWaitMoves
  \/ ConfigureGraphCreator
  \/ RunProcess
  \/ WaitForCompletion
  \/ ExecuteBegin
  \/ ExecuteEnd

Spec == Init /\ [][Next]_vars


\* ------------------------------------------------- reading the history
Indices(op) == {i \in DOMAIN log : log[i].op = op}
Count(op) == Cardinality(Indices(op))
LastIndex(op) ==
  IF Indices(op) = {} THEN 0
  ELSE CHOOSE i \in Indices(op) : \A j \in Indices(op) : j <= i
IsTestMove(e) == e.op = "move" /\ e.arg.kind = "test"
Ended == pc \in {"done", "raised"}

\* The speeds recorded for an angle, in the order of the recordings.
RecordedSpeeds(angle) ==
  LET OfAngle(e) == e.op = "start_recording" /\ e.arg.angle = angle
      starts == SelectSeq(log, OfAngle)
  IN [i \in DOMAIN starts |-> starts[i].arg.speed]

\* ----------------------------------------------------------- claims
\* C1: once the test limits have been applied, the original limits are
\* restored exactly once on every exit path: when the command has ended
\* (normally or by a raised error) after its first SET_VELOCITY_LIMIT,
\* exactly one more SET_VELOCITY_LIMIT (the restore) has been issued.
C1_RestoredOnEveryExit ==
  (Ended /\ Count("SET_VELOCITY_LIMIT") >= 1) => Count("SET_VELOCITY_LIMIT") = 2

\* C2: when a validation error (size, input shaper, kinematics) is raised,
\* no SET_VELOCITY_LIMIT, move, dwell, recording start or pipeline call has
\* been issued and the machine is as it was.
C2_ValidationBeforeMutation ==
  error \in {"size", "input_shaper", "kinematics"} =>
    /\ \A i \in DOMAIN log :
         log[i].op \notin {"SET_VELOCITY_LIMIT", "move", "dwell", "start_recording",
                           "stop_recording", "configure", "run", "wait_for_completion"}
    /\ limits = initial_limits
    /\ queue = << >> /\ executing = Idle
    /\ open_recordings = 0 /\ measurements = << >>

C2_Witness == pc = "raised" /\ error = "kinematics" /\ input_shaper

\* C3: recordings are opened and closed in strict start -> stop pairs: a
\* start is never issued while a recording is open nor a stop while none is
\* (the balance of starts and stops is 0 or 1), and when the sweep has
\* completed there were as many stops as starts.
C3_RecordingsPaired ==
  /\ open_recordings \in {0, 1}
  /\ open_recordings = Count("start_recording") - Count("stop_recording")
  /\ LastIndex("start_recording") > LastIndex("stop_recording") <=> open_recordings = 1
  /\ pc = "done" => Count("stop_recording") = Count("start_recording")

C3_Witness == pc = "done" /\ Count("start_recording") >= 4 /\ open_recordings = 0

\* C4: every test-speed move is issued after the start_recording of its
\* sample has returned and before the stop_recording of its sample is
\* called; and a stop_recording directly follows a test-speed move.
C4_MovesInsideStartStop ==
  LET n == Len(log)
      j == LastIndex("start_recording")
  IN n > 0 =>
       /\ IsTestMove(log[n]) =>
            /\ j > LastIndex("stop_recording")
            /\ log[j].arg.angle = log[n].arg.angle
            /\ log[j].arg.sample = log[n].arg.sample
            /\ log[j].arg.speed = log[n].arg.feed
       /\ log[n].op = "stop_recording" =>
            /\ n > 1 /\ IsTestMove(log[n - 1])
            /\ j > 0
            /\ log[j].arg.angle = log[n - 1].arg.angle
            /\ log[j].arg.sample = log[n - 1].arg.sample

C4_Witness ==
  /\ log # << >>
  /\ log[Len(log)].op = "stop_recording"
  /\ movements = 3
  /\ curr_speed_sample = 2

\* C5: every test-speed move of a sample starts and finishes its physical
\* execution while the recording of that sample is open.
C5_MotionInsideRecording ==
  executing.kind = "test" =>
    /\ open_recordings = 1
    /\ LET j == LastIndex("start_recording")
       IN j > 0 /\ log[j].arg.angle = executing.angle
                /\ log[j].arg.sample = executing.sample

\* C6: no part of an approach move is executing while a recording is open.
C6_ApproachNotRecorded ==
  executing.kind = "approach" => open_recordings = 0

\* C7: every stop_recording is followed by the settle dwell and then by
\* wait_moves before anything else is issued, and wait_moves returns with
\* no queued or executing motion.
C7_SettleAndDrainAfterStop ==
  /\ \A i \in DOMAIN log :
       log[i].op = "stop_recording" =>
         /\ i + 1 <= Len(log) => (log[i + 1].op = "dwell" /\ log[i + 1].arg.kind = "settle")
         /\ i + 2 <= Len(log) => log[i + 2].op = "wait_moves"
  /\ (log # << >> /\ log[Len(log)].op = "wait_moves") => Drained
  /\ pc \in {"loop_end", "restore"} => log[Len(log)].op = "wait_moves"

C7_Witness ==
  /\ pc = "approach"
  /\ curr_speed_sample = 1
  /\ Len(log) > 3
  /\ log[Len(log) - 2].op = "stop_recording"
  /\ log[Len(log)].op = "wait_moves"

\* C8: when minimum_cruise_ratio is absent from the toolhead status, no
\* SET_VELOCITY_LIMIT of the sweep carries MINIMUM_CRUISE_RATIO; when it is
\* present, the override carries MINIMUM_CRUISE_RATIO=0 and the restore
\* carries the value read.
C8_CruiseRatioOnlyIfPresent ==
  LET S == Indices("SET_VELOCITY_LIMIT")
  IN IF initial_limits.minimum_cruise_ratio = NoneVal
       THEN \A i \in S : log[i].arg.MCR = NoneVal
       ELSE \A i \in S :
              log[i].arg.MCR =
                (IF \E k \in S : k < i THEN initial_limits.minimum_cruise_ratio ELSE 0)

C8_Witness ==
  /\ pc = "done"
  /\ initial_limits.minimum_cruise_ratio = NoneVal
  /\ Count("SET_VELOCITY_LIMIT") = 2

\* C9: after a sweep that completes normally the velocity limits are the
\* ones read before the sweep: the restore writes max_accel and
\* square_corner_velocity as read, and minimum_cruise_ratio as read
\* whenever the status had it, whatever its value.
C9_LimitsRoundTrip ==
  pc \in {"final_drain", "configure", "run", "wait", "done"} =>
    /\ limits = initial_limits
    /\ LET r == log[LastIndex("SET_VELOCITY_LIMIT")].arg
       IN /\ r.ACCEL = initial_limits.max_accel
          /\ r.SQV = initial_limits.square_corner_velocity
          /\ r.MCR = initial_limits.minimum_cruise_ratio

C9_Witness ==
  /\ pc = "done"
  /\ initial_limits.minimum_cruise_ratio = 0
  /\ initial_limits.max_accel # params.ACCEL
  /\ limits = initial_limits

NextStop(j) ==
  LET T == {i \in Indices("stop_recording") : i > j}
  IN IF T = {} THEN 0 ELSE CHOOSE i \in T : \A k \in T : i <= k

\* C11: between the start_recording and the stop_recording of a sample
\* exactly 2 * r moves are issued, alternately to center + d and back to
\* center - d (the start endpoint, where the approach move went), each at
\* the sample's speed, with r = 1 below 150, 2 from 150 and below 250, 3
\* from 250; r does not decrease along the sweep of an angle.
C11_BackAndForthBursts ==
  \A j \in Indices("start_recording") :
    LET s == NextStop(j)
        v == log[j].arg.speed
        r == IF v < 150 THEN 1 ELSE IF v < 250 THEN 2 ELSE 3
    IN s > 0 =>
         /\ s - j - 1 = 2 * r
         /\ j > 1 /\ log[j - 1].op = "move" /\ log[j - 1].arg.kind = "approach"
         /\ log[j - 1].arg.side = "minus"
         /\ \A k \in 1 .. (s - j - 1) :
              /\ IsTestMove(log[j + k])
              /\ log[j + k].arg.feed = v
              /\ log[j + k].arg.angle = log[j].arg.angle
              /\ log[j + k].arg.side = (IF k % 2 = 1 THEN "plus" ELSE "minus")
              /\ log[j + k].arg.length = log[j - 1].arg.length
         /\ \A j2 \in Indices("start_recording") :
              (j2 < j /\ log[j2].arg.angle = log[j].arg.angle)
                => NextStop(j2) - j2 <= s - j

C11_Witness ==
  /\ pc = "done"
  /\ \E j \in Indices("start_recording") :
       log[j].arg.speed = 250 /\ NextStop(j) - j - 1 = 6
  /\ \E j \in Indices("start_recording") :
       log[j].arg.speed = 126 /\ NextStop(j) - j - 1 = 2

\* The approach moves of the call history: one per speed sample.
ApproachIndices == {i \in DOMAIN log : log[i].op = "move" /\ log[i].arg.kind = "approach"}
\* The speed of the sample an approach move belongs to.
SampleSpeed(i) == 2 + log[i].arg.sample * params.SPEED_INCREMENT

HasAngle(e) ==
  \/ e.op = "start_recording"
  \/ e.op = "move" /\ e.arg.kind \in {"approach", "test"}

\* The lookup_object of the accelerometer of the second angle, 0 before it.
SecondLookup ==
  IF Cardinality(Indices("lookup_object")) < 2 THEN 0 ELSE LastIndex("lookup_object")

\* C13: cartesian and corexz sweep angle 0 then 90, corexy 45 then 135, and
\* no other angle; everything of the first angle (all its samples recorded,
\* stopped and drained) is done before the sensor of the second angle is
\* resolved, and everything after that is for the second angle.
C13_AnglesInOrder ==
  LET expected == IF kinematics \in {"cartesian", "corexz"} THEN <<0, 90>>
                  ELSE IF kinematics = "corexy" THEN <<45, 135>> ELSE << >>
      N == ((params.MAX_SPEED - 2) \div params.SPEED_INCREMENT) + 1
      L2 == SecondLookup
  IN /\ main_angles # << >> => main_angles = expected
     /\ Cardinality(Indices("lookup_object")) <= 2
     /\ \A i \in DOMAIN log :
          HasAngle(log[i]) =>
            log[i].arg.angle = (IF L2 = 0 \/ i < L2 THEN expected[1] ELSE expected[2])
     /\ (pc = "angle" /\ angle_index = 2) =>
          /\ Drained
          /\ log[Len(log)].op = "wait_moves"
          /\ Count("start_recording") = N /\ Count("stop_recording") = N
     /\ L2 > 0 =>
          /\ Cardinality({i \in Indices("stop_recording") : i < L2}) = N
          /\ Cardinality({i \in Indices("start_recording") : i < L2}) = N
     /\ pc = "done" =>
          /\ Count("start_recording") = 2 * N
          /\ L2 > 0

C13_Witness ==
  /\ pc = "done"
  /\ kinematics = "corexz"
  /\ \E i \in Indices("start_recording") : log[i].arg.angle = 90

\* C14: when the accelerometer of an angle is not found, no approach move,
\* test move or recording of that angle has been issued, and no recording
\* is open: every recording started for an earlier angle was stopped.
C14_NotFoundBeforeAngle ==
  error = "accelerometer" =>
    /\ open_recordings = 0
    /\ Count("start_recording") = Count("stop_recording")
    /\ log[Len(log)].op = "lookup_object"
    /\ \A i \in DOMAIN log :
         HasAngle(log[i]) => log[i].arg.angle # main_angles[angle_index]

C14_Witness ==
  /\ error = "accelerometer"
  /\ angle_index = 2
  /\ Count("stop_recording") >= 2

\* C15: a non-empty ACCEL_CHIP is the device of every angle and the axis
\* resolver is never queried; without ACCEL_CHIP (absent or empty) the
\* resolver is queried once per angle, with 'x' for angle 0, 'y' for 90 and
\* 'xy' otherwise, and each angle uses the chip resolved for it.
C15_SensorSelection ==
  LET given == params.ACCEL_CHIP \notin {NoChip, ""}
      Lk == Indices("lookup_object")
      Fd == Indices("find_axis_accelerometer")
      Hint(a) == IF a = 0 THEN "x" ELSE IF a = 90 THEN "y" ELSE "xy"
      AngleAt(i) == main_angles[Cardinality({l \in Lk : l <= i})]
  IN IF given
       THEN /\ Fd = {}
            /\ \A i \in Lk : log[i].arg.chip = params.ACCEL_CHIP
            /\ \A j \in Indices("start_recording") : log[j].arg.chip = params.ACCEL_CHIP
       ELSE /\ Cardinality(Fd) = Cardinality(Lk)
            /\ \A i \in Lk :
                 /\ i > 1 /\ log[i - 1].op = "find_axis_accelerometer"
                 /\ log[i - 1].arg.axis = Hint(AngleAt(i))
                 /\ log[i].arg.chip = printer.resolver[Hint(AngleAt(i))]
            /\ \A j \in Indices("start_recording") :
                 log[j].arg.chip = printer.resolver[Hint(log[j].arg.angle)]
            /\ pc = "done" => Cardinality(Fd) = Len(main_angles)

C15_Witness ==
  /\ pc = "done"
  /\ params.ACCEL_CHIP = ""
  /\ kinematics = "cartesian"
  /\ printer.resolver["x"] # printer.resolver["y"]
  /\ \E j \in Indices("start_recording") : log[j].arg.chip = "adxl345"
  /\ \E j \in Indices("start_recording") : log[j].arg.chip = "lis2dw"


\* C16: the measurements are handed to the graph creation at most once:
\* configure, then run, then wait_for_completion, each at most once, after
\* every sample of every angle was recorded and stopped and after the
\* restore of the limits and its wait_moves; a command that raised has
\* made none of these calls.
C16_HandoffOnceAtTheEnd ==
  LET N == ((params.MAX_SPEED - 2) \div params.SPEED_INCREMENT) + 1
      c == LastIndex("configure")
      r == LastIndex("run")
      w == LastIndex("wait_for_completion")
  IN /\ Count("configure") <= 1 /\ Count("run") <= 1
     /\ Count("wait_for_completion") <= 1
     /\ r > 0 => (c > 0 /\ c < r)
     /\ w > 0 => (r > 0 /\ r < w)
     /\ c > 0 =>
          /\ c > 2 /\ log[c - 1].op = "wait_moves"
          /\ log[c - 2].op = "SET_VELOCITY_LIMIT"
          /\ Count("SET_VELOCITY_LIMIT") = 2
          /\ Count("start_recording") = 2 * N
          /\ Count("stop_recording") = 2 * N
          /\ \A i \in Indices("stop_recording") : i < c
          /\ Drained
     /\ r > 0 =>
          /\ log[r].arg.measurements = measurements
          /\ Len(measurements) = 2 * N
     /\ pc = "done" => w > 0
     /\ pc = "raised" => (c = 0 /\ r = 0 /\ w = 0)

C16_Witness ==
  /\ pc = "done"
  /\ Count("run") = 1
  /\ Len(measurements) = 6

\* C17: the request is rejected for its travel time exactly when
\* size / (max_speed / 60) < 0.25, that is 240 * size < max_speed; a ratio
\* of exactly 0.25 proceeds; nothing was done to the machine on rejection.
C17_TravelTimeCheck ==
  (pc \notin {"parse", "check_size"} /\ error # "parameter") =>
    /\ error = "size" <=> params.SIZE * 240 < params.MAX_SPEED
    /\ error = "size" =>
         /\ log = << >> /\ limits = initial_limits
         /\ queue = << >> /\ executing = Idle /\ open_recordings = 0

C17_Witness ==
  /\ pc = "done"
  /\ params.SIZE = 50 /\ params.MAX_SPEED = 12000

\* C18: the segment length of every sample is at least 1/3 of SIZE: the
\* multiplier (in 1/500) of every approach move is at least 500 / 3.
C18_SegmentAtLeastThird ==
  \A i \in ApproachIndices : 3 * log[i].arg.length >= params.SIZE * 500

\* C19: the recording names (angle and speed, two decimals each) are
\* pairwise distinct in a sweep, and a completed sweep hands off
\* (number of angles) * N recordings.
C19_NamesDistinct ==
  LET N == ((params.MAX_SPEED - 2) \div params.SPEED_INCREMENT) + 1
      S == Indices("start_recording")
      names == {measurements[i] : i \in DOMAIN measurements}
  IN /\ \A i, j \in S : i # j => log[i].arg.name # log[j].arg.name
     /\ \A i \in S : /\ log[i].arg.name.an = <<log[i].arg.angle, 0>>
                     /\ log[i].arg.name.sp = <<log[i].arg.speed, 0>>
     /\ Cardinality(names) = Len(measurements)
     /\ names \subseteq {log[i].arg.name : i \in S}
     /\ pc = "done" =>
          /\ Cardinality(names) = Len(main_angles) * N
          /\ {x \in DOMAIN log[LastIndex("run")].arg.measurements : TRUE}
               = 1 .. (Len(main_angles) * N)

C19_Witness ==
  /\ pc = "done"
  /\ Cardinality({measurements[i] : i \in DOMAIN measurements}) = 6

\* C20: the override of the limits is issued before the first move, the
\* restore after the last sample's drain with nothing queued or executing,
\* and no move is issued after the restore: whatever is queued or
\* executing runs under the test limits.
C20_MotionUnderTestLimits ==
  LET N == ((params.MAX_SPEED - 2) \div params.SPEED_INCREMENT) + 1
      S == Indices("SET_VELOCITY_LIMIT")
      M == {i \in DOMAIN log : log[i].op \in {"move", "dwell"}}
      last == LastIndex("SET_VELOCITY_LIMIT")
  IN /\ M # {} => (S # {} /\ \A i \in M : \E k \in S : k < i)
     /\ Cardinality(S) <= 2
     /\ Cardinality(S) = 2 =>
          /\ \A i \in M : i < last
          /\ log[last - 1].op = "wait_moves"
          /\ Count("stop_recording") = 2 * N
          /\ Drained
     /\ (queue # << >> \/ executing # Idle) =>
          /\ limits.max_accel = params.ACCEL
          /\ limits.square_corner_velocity = 5
          /\ limits.minimum_cruise_ratio \in {NoneVal, 0}

C20_Witness ==
  /\ pc = "done"
  /\ Count("SET_VELOCITY_LIMIT") = 2
  /\ Count("move") >= 8

====
